---- MODULE Spec2Model ----
(***************************************************************************)
(* Model of internal/auth/auth.go of cc-backend: the Authentication        *)
(* object built by Init and its three request handlers Login, Auth and     *)
(* Logout.  The collaborators that are not part of auth.go (the user       *)
(* table behind GetUser/AddUser, the authenticators behind the             *)
(* Authenticator interface, the bearer-token check AuthViaJWT and the      *)
(* gorilla cookie session store) are modelled by the results their calls   *)
(* can return, drawn nondeterministically per request.                     *)
(*                                                                         *)
(* Spec handles one request at a time.  SpecExpiry adds authenticators     *)
(* that return Users with an Expiration, and a clock.  SpecConcurrent runs *)
(* two Login requests whose steps interleave.                              *)
(***************************************************************************)
EXTENDS Integers, Sequences, FiniteSets, TLC

(* ------------------------------ bounds --------------------------------- *)

\* Number of distinct usernames that requests, tokens and the user table use.
MaxUsers == 1

UserNames == <<"alice", "bob", "carol", "dave">>

Usernames == {UserNames[i] : i \in 1..MaxUsers}

\* Role and project lists an authenticator or a token may put in a User.
RolesValues == {<<"admin", "user">>, <<"p1">>}

ProjectsValues == {<<"p1">>}

\* The last tick of the clock; an Expiration is one of the ticks 1..MaxTime.
MaxTime == 2

\* Values of Authentication.SessionMaxAge (nanoseconds) the operator may set:
\* unset, half a second, two seconds.
MaxAgeValues == {0, 500000000, 2000000000}

(* --------------------------- program constants ------------------------- *)

AuthViaLocalPassword == 0

AuthViaLDAP == 1

AuthViaToken == 2

AuthToken == 0

AuthSession == 1

\* AuthSource of a User rebuilt from the session cookie.
AuthSourceUnknown == -1

\* time.Second, in nanoseconds (the unit of time.Duration).
Second == 1000000000

\* Options.MaxAge of a session of sessions.NewCookieStore (30 days).
DefaultMaxAge == 2592000

StatusUnauthorized == 401

StatusInternalServerError == 500

\* (*User)(nil)
Nil == [nil |-> TRUE]

\* A nil error.
NoErr == "nil"

ErrNoRows == "sql: no rows in result set"

ErrNoAuthenticator == "no authenticator applied"

ErrUnauthorized == "unauthorized (please login first)"

ErrDb == "db: lookup failed"

ErrBadCookie == "securecookie: the value is not valid"

ErrSave == "securecookie: encoding failed"

ErrBadToken == "jwt: invalid token"

ErrAddUser == "db: insert failed"

ErrLogin(a) == "login failed: " \o a

SessionKeys == {"username", "projects", "roles"}

(* ------------------------------- state --------------------------------- *)

VARIABLES
    configs,          \* the configs map given to Init: [ldap: BOOLEAN]
    started,          \* TRUE iff Init returned (auth, nil)
    authenticators,   \* auth.authenticators, the Registry
    initialized,      \* authenticators whose own Init was called and returned nil
    SessionMaxAge,    \* auth.SessionMaxAge
    db,               \* usernames that have a record in the user table
    cookie,           \* the "session" cookie the client holds
    loginUser,        \* Username, Roles and Projects of the User returned by
                      \* the Login that saved the cookie the client holds
    last,             \* the last request: its inputs, the calls made, the outcome
    initErr,          \* the authenticator whose failed Init made Init fail, or ""
    now,              \* the clock (time.Now), in ticks
    loginExpiration,  \* Expiration of the User returned by the Login that saved
                      \* the cookie the client holds (0: the zero time, unset)
    loggedOut,        \* TRUE iff a Logout of the session of the last successful
                      \* Login has completed and no Login has succeeded since
    other             \* a second request, handled concurrently with last

\* What Init builds; no request handler assigns to it.
startup == <<configs, started, authenticators, initialized, SessionMaxAge, initErr>>

vars == <<startup, db, cookie, loginUser, last, now, loginExpiration, loggedOut, other>>

Range(f) == {f[i] : i \in DOMAIN f}

(* --------------------------- Init (startup) ---------------------------- *)

\* Init with the fault of appending the local authenticator before the
\* others.
InitAuthenticatorsLocalFirst(cfg, sessionOk, cookieSessionOk) ==
    LET a1 == IF cfg.ldap THEN <<"local", "ldap">> ELSE <<"local">>
        a2 == IF sessionOk THEN Append(a1, "jwtSession") ELSE a1
    IN  IF cookieSessionOk THEN Append(a2, "jwtCookieSession") ELSE a2

\* The Registry that Init builds: LDAP if configs has an "ldap" block, the
\* two JWT session authenticators if the call of jwtSessionAuth.Init that
\* guards each returned nil, and the local authenticator last.
InitAuthenticators(cfg, sessionOk, cookieSessionOk) ==
    LET a1 == IF cfg.ldap THEN <<"ldap">> ELSE <<>>
        a2 == IF sessionOk THEN Append(a1, "jwtSession") ELSE a1
        a3 == IF cookieSessionOk THEN Append(a2, "jwtCookieSession") ELSE a2
    IN  Append(a3, "local")

\* The authenticators whose own Init method Init called with a nil result.
\* Both guarded calls are calls of jwtSessionAuth.Init; Init of the
\* JWTCookieSessionAuthenticator is never called.
InitInitialized(cfg, sessionOk, cookieSessionOk) ==
    {"jwt", "local"}
        \cup (IF cfg.ldap THEN {"ldap"} ELSE {})
        \cup (IF sessionOk \/ cookieSessionOk THEN {"jwtSession"} ELSE {})

\* Init returns (nil, err) when the Init of JwtAuth, of LdapAuth (if
\* configured) or of LocalAuth fails.
InitFails(cfg, jwtOk, ldapOk, localOk) ==
    ~jwtOk \/ (cfg.ldap /\ ~ldapOk) \/ ~localOk

\* The authenticator whose Init returned the error that Init returns: the
\* first one that fails, in the order JwtAuth, LdapAuth, LocalAuth.
InitError(cfg, jwtOk, ldapOk, localOk) ==
    IF ~jwtOk THEN "jwt"
    ELSE IF cfg.ldap /\ ~ldapOk THEN "ldap"
    ELSE IF ~localOk THEN "local"
    ELSE ""

NoCookie == [kind |-> "none", Values |-> <<>>, MaxAge |-> 0]

\* A cookie that securecookie cannot decode (forged, expired, other key).
BadCookie == [kind |-> "bad", Values |-> <<>>, MaxAge |-> 0]

\* A request without an Authorization header.
NoToken == [kind |-> "none", user |-> Nil]

\* No session was passed to sessionStore.Save.
NoSession == [Values |-> <<>>, MaxAge |-> 0]

\* A request: what it carried (username form value, "session" cookie,
\* bearer token), the handler's position and local variables (dbUser, err,
\* the chosen authenticator, user), the calls it made so far, the session it
\* passed to Save, the User in the context given to onsuccess (ctxUser), and the
\* status the core wrote itself with http.Error (0: none).
NoRequest ==
    [op |-> "none", pc |-> "done", username |-> "", req |-> NoCookie,
     token |-> NoToken, dbUser |-> Nil, err |-> NoErr, chosen |-> "",
     user |-> Nil, calls |-> <<>>, saved |-> NoSession, ctxUser |-> Nil,
     status |-> 0]

Init ==
    \E cfg \in [ldap : BOOLEAN], jwtOk, ldapOk, sessionOk, cookieSessionOk,
       localOk \in BOOLEAN, maxAge \in MaxAgeValues, users \in SUBSET Usernames :
        /\ configs = cfg
        /\ started = ~InitFails(cfg, jwtOk, ldapOk, localOk)
        /\ authenticators =
              IF started THEN InitAuthenticators(cfg, sessionOk, cookieSessionOk)
              ELSE <<>>
        /\ initialized =
              IF started THEN InitInitialized(cfg, sessionOk, cookieSessionOk)
              ELSE {}
        /\ SessionMaxAge = IF started THEN maxAge ELSE 0
        /\ initErr = InitError(cfg, jwtOk, ldapOk, localOk)
        /\ db = users
        /\ cookie = NoCookie
        /\ loginUser = Nil
        /\ last = NoRequest
        /\ now = 1
        /\ loginExpiration = 0
        /\ loggedOut = FALSE
        /\ other = NoRequest

(* ------------------------- the session store -------------------------- *)

\* A call the handler made: the callee, its argument and what it returned.
Call(fn, arg, ret) == [fn |-> fn, arg |-> arg, ret |-> ret]

Calls(fn) == {i \in DOMAIN last.calls : last.calls[i].fn = fn}

Count(fn) == Cardinality(Calls(fn))

SessionOf(user) ==
    [username |-> user.Username, projects |-> user.Projects, roles |-> user.Roles]

\* A session sealed with the same SESSION_KEY that this Login did not write:
\* one of the three keys is absent from its Values.
ForeignValues ==
    LET full == [username |-> UserNames[1], projects |-> <<"p1">>,
                 roles |-> <<"admin", "user">>]
    IN  {[k \in SessionKeys \ {absent} |-> full[k]] : absent \in SessionKeys}

ForeignCookies ==
    {[kind |-> "session", Values |-> v, MaxAge |-> DefaultMaxAge] : v \in ForeignValues}

\* The "session" cookie a request can carry: the one the client was given,
\* none, an undecodable one, or a foreign one.
ReqCookies == {cookie, NoCookie, BadCookie} \cup ForeignCookies

\* sessions.CookieStore.New: a session with the store's default Options; the
\* Values of the request's cookie are decoded into it.  A cookie that does
\* not decode gives a new session together with an error.
SessionStoreNew(c) ==
    [Values |-> IF c.kind = "session" THEN c.Values ELSE <<>>,
     MaxAge |-> DefaultMaxAge,
     IsNew  |-> c.kind # "session",
     err    |-> IF c.kind = "bad" THEN ErrBadCookie ELSE NoErr]

\* sessions.CookieStore.Get: the first Get of a request is New.
SessionStoreGet(c) == SessionStoreNew(c)

Saved(session) == [Values |-> session.Values, MaxAge |-> session.MaxAge]

\* The cookie the client holds after a Set-Cookie of a saved session: a
\* negative MaxAge deletes it.
ClientCookie(session) ==
    IF session.MaxAge < 0 THEN NoCookie
    ELSE [kind |-> "session", Values |-> session.Values, MaxAge |-> session.MaxAge]

(* ------------------------------- Logout -------------------------------- *)

\* The response of a request whose Save succeeded carries the Set-Cookie of
\* the saved session.
SaveSucceeded(r) ==
    \E i \in DOMAIN r.calls : r.calls[i].fn = "Save" /\ r.calls[i].ret = NoErr

\* Line 293 with the fault of leaving the session's max-age as it is.
LogoutKeepMaxAge(session) == session

\* Line 293: session.Options.MaxAge = -1
LogoutExpire(session) == [session EXCEPT !.MaxAge = -1]

\* Lines 285-301 with the fault of not saving the expired session.
LogoutRequestNoSave(req, saveOk) ==
    LET r == [NoRequest EXCEPT !.op = "Logout", !.req = req]
        session == SessionStoreGet(req)
        c0 == <<Call("Get", "session", session.err)>>
    IN  IF session.err # NoErr
        THEN [r EXCEPT !.status = StatusInternalServerError,
                       !.calls = Append(c0, Call("http.Error", session.err, ""))]
        ELSE [r EXCEPT !.calls = Append(c0, Call("onsuccess", "", ""))]

\* Lines 285-301: an error of Get or of Save ends the request with
\* http.Error(.., 500); a session that is not new is expired and saved;
\* then onsuccess runs.
LogoutRequest(req, saveOk) ==
    LET r == [NoRequest EXCEPT !.op = "Logout", !.req = req]
        session == SessionStoreGet(req)
        c0 == <<Call("Get", "session", session.err)>>
        expired == LogoutExpire(session)
        c1 == Append(c0, Call("Save", "session", IF saveOk THEN NoErr ELSE ErrSave))
    IN  IF session.err # NoErr
        THEN [r EXCEPT !.status = StatusInternalServerError,
                       !.calls = Append(c0, Call("http.Error", session.err, ""))]
        ELSE IF ~session.IsNew
        THEN IF ~saveOk
             THEN [r EXCEPT !.status = StatusInternalServerError,
                            !.saved = Saved(expired),
                            !.calls = Append(c1, Call("http.Error", ErrSave, ""))]
             ELSE [r EXCEPT !.saved = Saved(expired),
                            !.calls = Append(c1, Call("onsuccess", "", ""))]
        ELSE [r EXCEPT !.calls = Append(c0, Call("onsuccess", "", ""))]

\* The Logout request r carried the session cookie that the last successful
\* Login gave the client, and reached onsuccess.
LogoutCompleted(r) ==
    /\ loginUser # Nil
    /\ r.req = cookie
    /\ \E i \in DOMAIN r.calls : r.calls[i].fn = "onsuccess"

Logout ==
    /\ started
    /\ last = NoRequest
    /\ \E req \in ReqCookies :
          \E saveOk \in (IF req.kind = "session" THEN BOOLEAN ELSE {FALSE}) :
              LET r == LogoutRequest(req, saveOk)
              IN  /\ last' = r
                  /\ IF SaveSucceeded(r)
                     THEN /\ cookie' = ClientCookie(r.saved)
                          /\ loginUser' = Nil
                          /\ loginExpiration' = 0
                     ELSE UNCHANGED <<cookie, loginUser, loginExpiration>>
                  /\ loggedOut' = (loggedOut \/ LogoutCompleted(r))
    /\ UNCHANGED <<startup, db, now, other>>

(* -------------------------------- Auth --------------------------------- *)

Users(sources) ==
    [Username : Usernames, Roles : RolesValues, Projects : ProjectsValues,
     AuthType : {AuthSession}, AuthSource : sources, Expiration : {0}]

\* The users a valid bearer token can name.
TokenUsers ==
    [Username : Usernames, Roles : {<<"admin", "user">>}, Projects : {<<>>},
     AuthType : {AuthToken}, AuthSource : {AuthViaToken}, Expiration : {0}]

\* The Authorization header of a request: absent, a token that does not
\* verify, or a valid token.
Tokens ==
    {NoToken, [kind |-> "invalid", user |-> Nil]}
        \cup {[kind |-> "valid", user |-> u] : u \in TokenUsers}

\* auth.JwtAuth.AuthViaJWT(rw, r)
AuthViaJWT(token) ==
    IF token.kind = "valid" THEN [user |-> token.user, err |-> NoErr]
    ELSE IF token.kind = "invalid" THEN [user |-> Nil, err |-> ErrBadToken]
    ELSE [user |-> Nil, err |-> NoErr]

\* The key of session.Values whose value AuthViaSession checks and reads
\* for roles.
RolesKey == "projects"

\* Lines 88-127 with the fault of leaving AuthSource out of the User literal,
\* so that it is the zero value of the type.
AuthViaSessionZeroSource(c) ==
    LET session == SessionStoreGet(c)
        Values == session.Values
    IN  IF session.err # NoErr THEN [user |-> Nil, err |-> session.err]
        ELSE IF session.IsNew THEN [user |-> Nil, err |-> NoErr]
        ELSE IF "username" \notin DOMAIN Values
        THEN [user |-> Nil, err |-> "No key username in session"]
        ELSE IF "projects" \notin DOMAIN Values
        THEN [user |-> Nil, err |-> "No key projects in session"]
        ELSE IF RolesKey \notin DOMAIN Values
        THEN [user |-> Nil, err |-> "No key roles in session"]
        ELSE [user |-> [Username |-> Values["username"],
                        Projects |-> Values["projects"],
                        Roles |-> Values[RolesKey],
                        AuthType |-> AuthSession,
                        AuthSource |-> 0,
                        Expiration |-> 0],
              err |-> NoErr]

\* Lines 88-127: the User of the request's session, nil for a new session,
\* an error for a cookie that does not decode or lacks a key.
AuthViaSession(c) ==
    LET session == SessionStoreGet(c)
        Values == session.Values
    IN  IF session.err # NoErr THEN [user |-> Nil, err |-> session.err]
        ELSE IF session.IsNew THEN [user |-> Nil, err |-> NoErr]
        ELSE IF "username" \notin DOMAIN Values
        THEN [user |-> Nil, err |-> "No key username in session"]
        ELSE IF "projects" \notin DOMAIN Values
        THEN [user |-> Nil, err |-> "No key projects in session"]
        ELSE IF RolesKey \notin DOMAIN Values
        THEN [user |-> Nil, err |-> "No key roles in session"]
        ELSE [user |-> [Username |-> Values["username"],
                        Projects |-> Values["projects"],
                        Roles |-> Values[RolesKey],
                        AuthType |-> AuthSession,
                        AuthSource |-> AuthSourceUnknown,
                        Expiration |-> 0],
              err |-> NoErr]

\* Lines 273-280: forward the user in the request context, or call onfailure.
AuthForward(r, user, calls) ==
    IF user # Nil
    THEN [r EXCEPT !.user = user, !.ctxUser = user,
                   !.calls = Append(calls, Call("onsuccess", "", ""))]
    ELSE [r EXCEPT !.calls = Append(calls, Call("onfailure", ErrUnauthorized, ""))]

\* The handler with the fault of asking the session first and the bearer
\* token only when the session gives no user.
AuthRequestSessionFirst(token, req) ==
    LET r == [NoRequest EXCEPT !.op = "Auth", !.token = token, !.req = req]
        s == AuthViaSession(req)
        c0 == <<Call("AuthViaSession", "", s.err)>>
        jwt == AuthViaJWT(token)
        c1 == Append(c0, Call("AuthViaJWT", token.kind, jwt.err))
    IN  IF s.err # NoErr
        THEN [r EXCEPT !.calls = Append(c0, Call("http.Error", s.err, "")),
                       !.status = StatusUnauthorized]
        ELSE IF s.user # Nil THEN AuthForward(r, s.user, c0)
        ELSE AuthForward(r, jwt.user, c1)

\* Lines 261-281: AuthViaJWT, then AuthViaSession if that gave no user; an
\* error of AuthViaSession ends the request with http.Error(.., 401).
AuthRequest(token, req) ==
    LET r == [NoRequest EXCEPT !.op = "Auth", !.token = token, !.req = req]
        jwt == AuthViaJWT(token)
        c0 == <<Call("AuthViaJWT", token.kind, jwt.err)>>
    IN  IF jwt.user = Nil
        THEN LET s == AuthViaSession(req)
                 c1 == Append(c0, Call("AuthViaSession", "", s.err))
             IN  IF s.err # NoErr
                 THEN [r EXCEPT !.calls = Append(c1, Call("http.Error", s.err, "")),
                                !.status = StatusUnauthorized]
                 ELSE AuthForward(r, s.user, c1)
        ELSE AuthForward(r, jwt.user, c0)

Auth ==
    /\ started
    /\ last = NoRequest
    /\ \E token \in Tokens, req \in ReqCookies : last' = AuthRequest(token, req)
    /\ UNCHANGED <<startup, db, cookie, loginUser, now, loginExpiration,
                   loggedOut, other>>

(* -------------------------------- Login -------------------------------- *)

\* The row GetUser loads for a username of the user table.
DbUser(username) ==
    [Username |-> username, Roles |-> <<"user">>, Projects |-> <<>>,
     AuthType |-> AuthSession, AuthSource |-> AuthViaLocalPassword,
     Expiration |-> 0]

\* auth.GetUser(username): the row, sql.ErrNoRows, or another error.
GetUser(username, lookupOk) ==
    IF ~lookupOk THEN [user |-> Nil, err |-> ErrDb]
    ELSE IF username \in db THEN [user |-> DbUser(username), err |-> NoErr]
    ELSE [user |-> Nil, err |-> ErrNoRows]

\* Lines 196-205 with the fault of ending the request with onfailure when
\* the lookup fails with an error other than sql.ErrNoRows.
LoginLookupAbort(username, req, lookupOk) ==
    LET r == [NoRequest EXCEPT !.op = "Login", !.pc = "chain",
                               !.username = username, !.req = req,
                               !.err = ErrNoAuthenticator]
        got == GetUser(username, lookupOk)
        c0 == <<Call("GetUser", username, got.err)>>
    IN  IF username = "" THEN r
        ELSE IF got.err \notin {NoErr, ErrNoRows}
        THEN [r EXCEPT !.pc = "done", !.err = got.err,
                       !.calls = Append(c0, Call("onfailure", got.err, ""))]
        ELSE [r EXCEPT !.dbUser = got.user, !.err = got.err, !.calls = c0]

\* Lines 196-205: err starts as "no authenticator applied"; a non-empty
\* username is looked up and the result assigned to dbUser and to err.
LoginLookup(username, req, lookupOk) ==
    LET r == [NoRequest EXCEPT !.op = "Login", !.pc = "chain",
                               !.username = username, !.req = req,
                               !.err = ErrNoAuthenticator]
        got == GetUser(username, lookupOk)
    IN  IF username # ""
        THEN [r EXCEPT !.dbUser = got.user, !.err = got.err,
                       !.calls = <<Call("GetUser", username, got.err)>>]
        ELSE r

LoginStart ==
    /\ started
    /\ last = NoRequest
    /\ \E username \in Usernames \cup {""}, req \in ReqCookies :
          \E lookupOk \in (IF username = "" THEN {TRUE} ELSE BOOLEAN) :
              last' = LoginLookup(username, req, lookupOk)
    /\ UNCHANGED <<startup, db, cookie, loginUser, now, loginExpiration,
                   loggedOut, other>>

\* The loop with the fault of not stopping at the first willing authenticator:
\* every authenticator is asked and the last willing one is chosen.
RECURSIVE LoginLoopLastWilling(_, _, _)
LoginLoopLastWilling(i, can, calls) ==
    IF i > Len(authenticators) THEN [chosen |-> "", calls |-> calls]
    ELSE LET a == authenticators[i]
             asked == Append(calls, Call("CanLogin", a,
                                         IF a \in can THEN "true" ELSE "false"))
             rest == LoginLoopLastWilling(i + 1, can, asked)
         IN  IF rest.chosen = "" /\ a \in can
             THEN [chosen |-> a, calls |-> rest.calls]
             ELSE rest

\* Lines 207-211: the loop over auth.authenticators up to the first
\* authenticator whose CanLogin is true; can is the set of those for which
\* CanLogin(dbUser, rw, r) is true.
RECURSIVE LoginLoop(_, _, _)
LoginLoop(i, can, calls) ==
    IF i > Len(authenticators) THEN [chosen |-> "", calls |-> calls]
    ELSE LET a == authenticators[i]
         IN  IF a \notin can
             THEN LoginLoop(i + 1, can, Append(calls, Call("CanLogin", a, "false")))
             ELSE [chosen |-> a, calls |-> Append(calls, Call("CanLogin", a, "true"))]

\* Lines 252-253 with the fault of returning without calling onfailure.
LoginNoneAppliedSilent(r, calls) ==
    [r EXCEPT !.pc = "done", !.calls = calls]

\* Lines 252-253: no authenticator applied; onfailure gets the handler's err.
LoginNoneApplied(r, calls) ==
    [r EXCEPT !.pc = "done", !.calls = Append(calls, Call("onfailure", r.err, ""))]

LoginChain ==
    /\ last.op = "Login" /\ last.pc = "chain"
    /\ \E can \in SUBSET Range(authenticators) :
          LET loop == LoginLoop(1, can, last.calls)
          IN  last' = IF loop.chosen = ""
                      THEN LoginNoneApplied(last, loop.calls)
                      ELSE [last EXCEPT !.pc = "attempt", !.chosen = loop.chosen,
                                        !.calls = loop.calls]
    /\ UNCHANGED <<startup, db, cookie, loginUser, now, loginExpiration,
                   loggedOut, other>>

\* The AuthSource an authenticator gives the User it returns.
SourceOf(a) ==
    IF a = "ldap" THEN AuthViaLDAP
    ELSE IF a = "local" THEN AuthViaLocalPassword
    ELSE AuthViaToken

\* authenticator.Login(dbUser, rw, r): a User, or an error of its own.
LoginResults(a) ==
    {[user |-> Nil, err |-> ErrLogin(a)]}
        \cup {[user |-> u, err |-> NoErr] : u \in Users({SourceOf(a)})}

\* Lines 212-217 with the fault of handing onfailure the handler's outer err
\* instead of the error the authenticator returned.
LoginAttemptOuterErr(r, res) ==
    LET c1 == Append(r.calls, Call("Login", r.chosen, res.err))
    IN  IF res.err # NoErr
        THEN [r EXCEPT !.pc = "done", !.calls = Append(c1, Call("onfailure", r.err, ""))]
        ELSE [r EXCEPT !.pc = "session", !.user = res.user, !.calls = c1]

\* Lines 212-217: the chosen authenticator's Login; its error ends the
\* request with onfailure(rw, r, err).
LoginAttempt(r, res) ==
    LET c1 == Append(r.calls, Call("Login", r.chosen, res.err))
    IN  IF res.err # NoErr
        THEN [r EXCEPT !.pc = "done", !.calls = Append(c1, Call("onfailure", res.err, ""))]
        ELSE [r EXCEPT !.pc = "session", !.user = res.user, !.calls = c1]

LoginAttemptStep ==
    /\ last.op = "Login" /\ last.pc = "attempt"
    /\ \E res \in LoginResults(last.chosen) : last' = LoginAttempt(last, res)
    /\ UNCHANGED <<startup, db, cookie, loginUser, now, loginExpiration,
                   loggedOut, other>>

\* int(auth.SessionMaxAge.Seconds()), for a duration that is not negative.
Seconds(d) == d \div Second

\* Lines 226-231 with the fault of assigning the configured max-age even
\* when it is 0.
LoginFillAlways(session, user) ==
    [session EXCEPT !.MaxAge = Seconds(SessionMaxAge),
                    !.Values = SessionOf(user) @@ @]

\* Lines 226-231: the configured max-age if it is not 0, and the three
\* Values of the user.
LoginFill(session, user) ==
    [session EXCEPT
        !.MaxAge = IF SessionMaxAge # 0 THEN Seconds(SessionMaxAge) ELSE @,
        !.Values = SessionOf(user) @@ @]

\* Lines 219-236 with the fault of only logging a failed Save.
LoginSessionIgnoreSaveErr(r, saveOk) ==
    LET new == SessionStoreNew(r.req)
        c1 == Append(r.calls, Call("New", "session", new.err))
        session == LoginFill(new, r.user)
        c2 == Append(c1, Call("Save", "session", IF saveOk THEN NoErr ELSE ErrSave))
    IN  IF new.err # NoErr
        THEN [r EXCEPT !.pc = "done", !.status = StatusInternalServerError,
                       !.calls = Append(c1, Call("http.Error", new.err, ""))]
        ELSE [r EXCEPT !.pc = "register", !.saved = Saved(session), !.calls = c2]

\* Lines 219-236: a new session is created, filled and saved; a failure of
\* either call ends the request with http.Error(.., 500).
LoginSession(r, saveOk) ==
    LET new == SessionStoreNew(r.req)
        c1 == Append(r.calls, Call("New", "session", new.err))
        session == LoginFill(new, r.user)
        c2 == Append(c1, Call("Save", "session", IF saveOk THEN NoErr ELSE ErrSave))
    IN  IF new.err # NoErr
        THEN [r EXCEPT !.pc = "done", !.status = StatusInternalServerError,
                       !.calls = Append(c1, Call("http.Error", new.err, ""))]
        ELSE IF ~saveOk
        THEN [r EXCEPT !.pc = "done", !.status = StatusInternalServerError,
                       !.saved = Saved(session),
                       !.calls = Append(c2, Call("http.Error", ErrSave, ""))]
        ELSE [r EXCEPT !.pc = "register", !.saved = Saved(session), !.calls = c2]

Identity(user) ==
    [Username |-> user.Username, Roles |-> user.Roles, Projects |-> user.Projects]

LoginSessionStep ==
    /\ last.op = "Login" /\ last.pc = "session"
    /\ \E saveOk \in (IF SessionStoreNew(last.req).err = NoErr THEN BOOLEAN ELSE {FALSE}) :
          LET r == LoginSession(last, saveOk)
          IN  /\ last' = r
              /\ IF SaveSucceeded(r)
                 THEN /\ cookie' = ClientCookie(r.saved)
                      /\ loginUser' = Identity(r.user)
                      /\ loginExpiration' = r.user.Expiration
                      /\ loggedOut' = FALSE
                 ELSE UNCHANGED <<cookie, loginUser, loginExpiration, loggedOut>>
    /\ UNCHANGED <<startup, db, now, other>>

\* Lines 238-249 with the fault of adding the user whether or not it had a
\* row.
LoginRegisterAlways(r, addOk) ==
    LET c1 == Append(r.calls, Call("AddUser", r.user.Username,
                                   IF addOk THEN NoErr ELSE ErrAddUser))
    IN  [r EXCEPT !.pc = "done", !.ctxUser = r.user,
                  !.calls = Append(c1, Call("onsuccess", "", ""))]

\* Lines 238-249 with the fault of ending the request with onfailure when
\* AddUser returns an error.
LoginRegisterFailOnAddErr(r, addOk) ==
    LET c1 == Append(r.calls, Call("AddUser", r.user.Username,
                                   IF addOk THEN NoErr ELSE ErrAddUser))
    IN  IF r.dbUser = Nil /\ ~addOk
        THEN [r EXCEPT !.pc = "done",
                       !.calls = Append(c1, Call("onfailure", ErrAddUser, ""))]
        ELSE [r EXCEPT !.pc = "done", !.ctxUser = r.user,
                       !.calls = Append(IF r.dbUser = Nil THEN c1 ELSE r.calls,
                                        Call("onsuccess", "", ""))]

\* Lines 238-249: a user that had no row is added to the user table (an
\* error of AddUser is only logged), then onsuccess runs with the user in
\* the request context.
LoginRegister(r, addOk) ==
    LET c1 == IF r.dbUser = Nil
              THEN Append(r.calls, Call("AddUser", r.user.Username,
                                        IF addOk THEN NoErr ELSE ErrAddUser))
              ELSE r.calls
    IN  [r EXCEPT !.pc = "done", !.ctxUser = r.user,
                  !.calls = Append(c1, Call("onsuccess", "", ""))]

\* auth.AddUser(user) inserts a row; it fails if the store fails or the
\* username already has one.
AddUserResults(user) == IF user.Username \in db THEN {FALSE} ELSE BOOLEAN

AddUserSucceeded(r) ==
    \E i \in DOMAIN r.calls : r.calls[i].fn = "AddUser" /\ r.calls[i].ret = NoErr

LoginRegisterStep ==
    /\ last.op = "Login" /\ last.pc = "register"
    /\ \E addOk \in (IF last.dbUser = Nil THEN AddUserResults(last.user) ELSE {FALSE}) :
          LET r == LoginRegister(last, addOk)
          IN  /\ last' = r
              /\ db' = IF AddUserSucceeded(r) THEN db \cup {r.user.Username} ELSE db
    /\ UNCHANGED <<startup, cookie, loginUser, now, loginExpiration,
                   loggedOut, other>>

Login == LoginStart \/ LoginChain \/ LoginAttemptStep \/ LoginSessionStep \/ LoginRegisterStep

(* ------------------------------ behaviour ------------------------------ *)

\* The handler has returned: the record of the request is dropped and the
\* next request can be taken.
Return ==
    /\ last.op # "none"
    /\ last.pc = "done"
    /\ last' = NoRequest
    /\ UNCHANGED <<startup, db, cookie, loginUser, now, loginExpiration,
                   loggedOut, other>>

Next == Login \/ Auth \/ Logout \/ Return

Spec == Init /\ [][Next]_vars

(* ------------------- expiring identities and the clock ----------------- *)

\* An Expiration that is set (not the zero time) and before the clock.
Passed(t) == t # 0 /\ t < now

\* authenticator.Login of an authenticator that logs in by a token: the
\* User carries the token's expiry, which has not passed.
ExpiringLoginResults(a) ==
    {[user |-> [u EXCEPT !.Expiration = t], err |-> NoErr] :
        u \in Users({SourceOf(a)}), t \in {t \in 1..MaxTime : ~Passed(t)}}

LoginExpiringStep ==
    /\ last.op = "Login" /\ last.pc = "attempt"
    /\ SourceOf(last.chosen) = AuthViaToken
    /\ \E res \in ExpiringLoginResults(last.chosen) : last' = LoginAttempt(last, res)
    /\ UNCHANGED <<startup, db, cookie, loginUser, now, loginExpiration,
                   loggedOut, other>>

\* Time passes between two requests (by less than the lifetime of a
\* cookie), so that last is always a request handled at time now.
Tick ==
    /\ started
    /\ last = NoRequest
    /\ now < MaxTime
    /\ now' = now + 1
    /\ UNCHANGED <<startup, db, cookie, loginUser, last, loginExpiration,
                   loggedOut, other>>

NextExpiry == Next \/ LoginExpiringStep \/ Tick

\* The startups that leave the session cookie the store's default lifetime
\* of 30 days, which no tick of the clock exhausts.
InitExpiry == Init /\ SessionMaxAge = 0

\* Spec, with authenticators that return expiring Users and with a clock.
SpecExpiry == InitExpiry /\ [][NextExpiry]_vars

(* ------------------------ two concurrent Logins ------------------------ *)

\* net/http runs every request in a goroutine of its own, so the steps of
\* two Login requests interleave.  last and other are two Login requests
\* in flight; each takes the steps of Login on its own local variables and
\* on the shared user table and cookie.

\* The form values of the Login requests that run concurrently: a username,
\* no session cookie.
LoginStartNoCookie ==
    /\ started
    /\ last.pc = "done"
    /\ \E username \in Usernames, lookupOk \in BOOLEAN :
          last' = LoginLookup(username, NoCookie, lookupOk)
    /\ UNCHANGED <<startup, db, cookie, loginUser, now, loginExpiration,
                   loggedOut, other>>

OtherStart ==
    /\ started
    /\ other.pc = "done"
    /\ \E username \in Usernames, lookupOk \in BOOLEAN :
          other' = LoginLookup(username, NoCookie, lookupOk)
    /\ UNCHANGED <<startup, db, cookie, loginUser, now, loginExpiration,
                   loggedOut, last>>

OtherChain ==
    /\ other.op = "Login" /\ other.pc = "chain"
    /\ \E can \in SUBSET Range(authenticators) :
          LET loop == LoginLoop(1, can, other.calls)
          IN  other' = IF loop.chosen = ""
                       THEN LoginNoneApplied(other, loop.calls)
                       ELSE [other EXCEPT !.pc = "attempt", !.chosen = loop.chosen,
                                          !.calls = loop.calls]
    /\ UNCHANGED <<startup, db, cookie, loginUser, now, loginExpiration,
                   loggedOut, last>>

OtherAttemptStep ==
    /\ other.op = "Login" /\ other.pc = "attempt"
    /\ \E res \in LoginResults(other.chosen) : other' = LoginAttempt(other, res)
    /\ UNCHANGED <<startup, db, cookie, loginUser, now, loginExpiration,
                   loggedOut, last>>

OtherSessionStep ==
    /\ other.op = "Login" /\ other.pc = "session"
    /\ \E saveOk \in BOOLEAN :
          LET r == LoginSession(other, saveOk)
          IN  /\ other' = r
              /\ IF SaveSucceeded(r)
                 THEN /\ cookie' = ClientCookie(r.saved)
                      /\ loginUser' = Identity(r.user)
                      /\ loginExpiration' = r.user.Expiration
                      /\ loggedOut' = FALSE
                 ELSE UNCHANGED <<cookie, loginUser, loginExpiration, loggedOut>>
    /\ UNCHANGED <<startup, db, now, last>>

OtherRegisterStep ==
    /\ other.op = "Login" /\ other.pc = "register"
    /\ \E addOk \in (IF other.dbUser = Nil THEN AddUserResults(other.user) ELSE {FALSE}) :
          LET r == LoginRegister(other, addOk)
          IN  /\ other' = r
              /\ db' = IF AddUserSucceeded(r) THEN db \cup {r.user.Username} ELSE db
    /\ UNCHANGED <<startup, cookie, loginUser, now, loginExpiration,
                   loggedOut, last>>

OtherLogin ==
    OtherStart \/ OtherChain \/ OtherAttemptStep \/ OtherSessionStep \/ OtherRegisterStep

NextConcurrent ==
    \/ LoginStartNoCookie
    \/ LoginChain
    \/ LoginAttemptStep
    \/ LoginSessionStep
    \/ LoginRegisterStep
    \/ OtherLogin

\* The startups with the default session lifetime and an empty user table.
InitConcurrent == Init /\ SessionMaxAge = 0 /\ db = {}

SpecConcurrent == InitConcurrent /\ [][NextConcurrent]_vars

(* ------------------------- reading a request -------------------------- *)

Finished(op) == last.op = op /\ last.pc = "done"

Rets(fn) == {last.calls[i].ret : i \in Calls(fn)}

Args(fn) == {last.calls[i].arg : i \in Calls(fn)}

\* The calls of CanLogin and of the authenticators' Login, in order.
ChainCalls ==
    SelectSeq(last.calls, LAMBDA c : c.fn \in {"CanLogin", "Login"})

IsCanLogin(c, a, ret) == c = Call("CanLogin", a, ret)

(* -------------------------------- claims ------------------------------- *)

\* C1: in every Login request CanLogin is called on the authenticators in
\* Registry order, each at most once; every CanLogin call but the last one
\* made returned false; the authenticator's Login is called at most once, on
\* the authenticator whose CanLogin just returned true, and no CanLogin or
\* Login call follows it, whether it succeeds or fails; a request that ends
\* without a Login call has asked the whole Registry.
C1_RegistryOrder ==
    last.op = "Login" =>
        LET cc == ChainCalls
            asked == SelectSeq(cc, LAMBDA c : c.fn = "CanLogin")
            n == Len(asked)
        IN  /\ n <= Len(authenticators)
            /\ \A j \in 1..n : asked[j].arg = authenticators[j]
            /\ \A j \in 1..n : j < n => asked[j].ret = "false"
            /\ \A i \in 1..Len(cc) :
                  cc[i].fn = "Login" =>
                      /\ i = Len(cc)
                      /\ i = n + 1
                      /\ IsCanLogin(cc[n], cc[i].arg, "true")
            /\ (n > 0 /\ asked[n].ret = "true" /\ last.pc \notin {"chain", "attempt"})
                  => Count("Login") = 1
            /\ (last.pc = "done" /\ Count("Login") = 0)
                  => (n = Len(authenticators) /\ \A j \in 1..n : asked[j].ret = "false")

\* A finished Login in a Registry of at least three authenticators that
\* chose the second one and went on to the success handler.
C1_Witness ==
    /\ Finished("Login")
    /\ Len(authenticators) >= 3
    /\ last.chosen = authenticators[2]
    /\ Count("onsuccess") = 1

\* C2: a Login request that ends without any authenticator's Login having
\* been called (none was willing) has called onfailure with the "no
\* authenticator applied" error, whatever the username was: empty, found in
\* the user table, not found, or failing to be looked up.
C2_NoAuthenticatorApplied ==
    (Finished("Login") /\ Count("Login") = 0) =>
        /\ Count("onfailure") = 1
        /\ Args("onfailure") = {ErrNoAuthenticator}

\* C3: an Auth request without a bearer token that carries the session
\* cookie a successful Login saved is forwarded with a User whose Username,
\* Roles and Projects equal (as sets) those of the User that Login returned.
C3_RoundTrip ==
    (/\ Finished("Auth")
     /\ last.token = NoToken
     /\ loginUser # Nil
     /\ cookie.kind = "session"
     /\ last.req = cookie) =>
        /\ Count("onsuccess") = 1
        /\ last.ctxUser # Nil
        /\ last.ctxUser.Username = loginUser.Username
        /\ Range(last.ctxUser.Roles) = Range(loginUser.Roles)
        /\ Range(last.ctxUser.Projects) = Range(loginUser.Projects)

\* C4: an Auth request whose token stage gives no user and whose session
\* has the keys username and projects but not roles gets the error
\* "No key roles in session" from AuthViaSession and is not forwarded to
\* the success handler.
C4_MissingRoles ==
    (/\ Finished("Auth")
     /\ last.token.kind # "valid"
     /\ last.req.kind = "session"
     /\ DOMAIN last.req.Values = {"username", "projects"}) =>
        /\ Rets("AuthViaSession") = {"No key roles in session"}
        /\ Count("onsuccess") = 0

\* A Login or Auth request that failed to authenticate: the chosen
\* authenticator's Login failed, no authenticator applied, or neither the
\* token nor the session gave a user (with or without a session error).
FailedToAuthenticate ==
    \/ Finished("Login") /\ (Count("Login") = 0 \/ Rets("Login") # {NoErr})
    \/ Finished("Auth") /\ last.user = Nil

\* C5: every Login or Auth request that failed to authenticate has called
\* onfailure exactly once, with an error that is not nil, and the core has
\* written no answer of its own.
C5_FailureContinuation ==
    FailedToAuthenticate =>
        /\ Count("onfailure") = 1
        /\ NoErr \notin Args("onfailure")
        /\ last.status = 0
        /\ Count("http.Error") = 0

\* C6: a Login request whose chosen authenticator's Login failed has called
\* onfailure exactly once, with the error that Login call returned; it has
\* created and saved no session, added no user, written no answer of its
\* own and not called onsuccess.
C6_AuthenticatorFails ==
    (Finished("Login") /\ Count("Login") = 1 /\ NoErr \notin Rets("Login")) =>
        /\ Count("onfailure") = 1
        /\ Args("onfailure") = Rets("Login")
        /\ Count("New") = 0
        /\ Count("Save") = 0
        /\ last.saved = NoSession
        /\ Count("AddUser") = 0
        /\ Count("onsuccess") = 0
        /\ last.status = 0

\* A finished Login whose chosen authenticator failed, for a username that
\* has a row (so that the handler's own err is nil).
C6_Witness ==
    /\ Finished("Login")
    /\ Rets("Login") = {ErrLogin(last.chosen)}
    /\ last.dbUser # Nil

\* C7: a Login request that reached onsuccess has called AddUser exactly
\* once, for the user it forwards, if dbUser was nil, and not at all if the
\* username resolved to a row.
C7_RegisterOnce ==
    (Finished("Login") /\ Count("onsuccess") = 1) =>
        /\ Count("AddUser") = (IF last.dbUser = Nil THEN 1 ELSE 0)
        /\ Args("AddUser") \subseteq {last.ctxUser.Username}

\* A first-time Login that succeeded and whose user now has a row.
C7_Witness ==
    /\ Finished("Login")
    /\ Count("onsuccess") = 1
    /\ last.dbUser = Nil
    /\ Rets("AddUser") = {NoErr}
    /\ last.ctxUser.Username \in db

\* C8 as stated: Logout without a session cookie saves nothing and calls
\* onsuccess; Logout on an existing session saves it once with max-age -1
\* and then calls onsuccess.
C8_LogoutAlwaysSucceeds ==
    Finished("Logout") =>
        /\ last.req.kind = "none" => (Count("Save") = 0 /\ Count("onsuccess") = 1)
        /\ last.req.kind = "session" =>
              /\ Count("Save") = 1
              /\ last.saved.MaxAge = -1
              /\ Count("onsuccess") = 1

\* C8, amended: Logout without a session cookie saves nothing and calls
\* onsuccess; Logout on an existing session calls Save once, with max-age
\* -1; if that Save succeeds onsuccess is the next and last call, and if it
\* fails the request ends with status 500 and onsuccess is not called.
C8_Logout ==
    Finished("Logout") =>
        /\ last.req.kind = "none" =>
              (Count("Save") = 0 /\ Count("onsuccess") = 1 /\ last.status = 0)
        /\ last.req.kind = "session" =>
              /\ Count("Save") = 1
              /\ last.saved.MaxAge = -1
              /\ Rets("Save") = {NoErr} =>
                    /\ Count("onsuccess") = 1
                    /\ last.calls[Len(last.calls)].fn = "onsuccess"
                    /\ last.calls[Len(last.calls) - 1].fn = "Save"
                    /\ last.status = 0
              /\ Rets("Save") # {NoErr} =>
                    /\ Count("onsuccess") = 0
                    /\ last.status = StatusInternalServerError

\* A finished Logout of a session that has all three keys, saved and
\* forwarded, after which the client holds no session cookie.
C8_Witness ==
    /\ Finished("Logout")
    /\ last.req.kind = "session"
    /\ DOMAIN last.req.Values = SessionKeys
    /\ Rets("Save") = {NoErr}
    /\ Count("onsuccess") = 1
    /\ cookie = NoCookie

\* C9: an Auth request calls AuthViaJWT first and once, and AuthViaSession
\* (second, once) exactly when AuthViaJWT gave no user; nothing else is
\* consulted.  A token user is forwarded as it is; otherwise a session user
\* is forwarded; onsuccess always gets a user in the context; if neither
\* stage gave a user and the session stage gave no error, onfailure is
\* called once with the unauthorized error.
C9_TwoStages ==
    Finished("Auth") =>
        LET jwt == AuthViaJWT(last.token)
            sess == AuthViaSession(last.req)
        IN  /\ Count("AuthViaJWT") = 1
            /\ last.calls[1].fn = "AuthViaJWT"
            /\ Count("AuthViaSession") = (IF jwt.user = Nil THEN 1 ELSE 0)
            /\ Count("AuthViaSession") = 1 => last.calls[2].fn = "AuthViaSession"
            /\ \A i \in DOMAIN last.calls :
                  last.calls[i].fn \in
                      {"AuthViaJWT", "AuthViaSession", "onsuccess", "onfailure", "http.Error"}
            /\ jwt.user # Nil =>
                  (Count("onsuccess") = 1 /\ last.ctxUser = jwt.user)
            /\ (jwt.user = Nil /\ sess.user # Nil) =>
                  (Count("onsuccess") = 1 /\ last.ctxUser = sess.user)
            /\ Count("onsuccess") = 1 => last.ctxUser # Nil
            /\ (jwt.user = Nil /\ sess.user = Nil /\ sess.err = NoErr) =>
                  /\ Count("onfailure") = 1
                  /\ Args("onfailure") = {ErrUnauthorized}
                  /\ Count("onsuccess") = 0
                  /\ last.status = 0

\* A finished Auth whose bearer token did not verify and whose session
\* cookie gave the user that was forwarded.
C9_Witness ==
    /\ Finished("Auth")
    /\ last.token.kind = "invalid"
    /\ Count("AuthViaSession") = 1
    /\ Count("onsuccess") = 1
    /\ last.ctxUser.AuthType = AuthSession

\* C10: a Login or Logout request in which New or Save returned an error
\* has ended with status 500 written by http.Error, without calling
\* onsuccess and without calling AddUser.
C10_SessionFailure ==
    (/\ last.pc = "done"
     /\ last.op \in {"Login", "Logout"}
     /\ ~((Rets("New") \cup Rets("Save")) \subseteq {NoErr})) =>
        /\ last.status = StatusInternalServerError
        /\ Count("http.Error") = 1
        /\ Count("onsuccess") = 0
        /\ Count("AddUser") = 0

\* A finished first-time Login whose authenticator succeeded and whose Save
\* failed.
C10_Witness ==
    /\ Finished("Login")
    /\ Rets("Login") = {NoErr}
    /\ last.dbUser = Nil
    /\ Rets("Save") = {ErrSave}

\* C11 as stated: the session a Login saved has the store's default max-age
\* if SessionMaxAge is 0, and otherwise a max-age that is exactly the
\* configured SessionMaxAge.
C11_ExactMaxAge ==
    (last.op = "Login" /\ SaveSucceeded(last)) =>
        IF SessionMaxAge = 0
        THEN last.saved.MaxAge = DefaultMaxAge
        ELSE last.saved.MaxAge * Second = SessionMaxAge

\* C11, amended: the session a Login saved has the store's default max-age
\* if SessionMaxAge is 0, and otherwise the whole seconds of SessionMaxAge,
\* the fraction of a second dropped.
C11_MaxAgeWholeSeconds ==
    (last.op = "Login" /\ SaveSucceeded(last)) =>
        IF SessionMaxAge = 0
        THEN last.saved.MaxAge = DefaultMaxAge
        ELSE (SessionMaxAge - last.saved.MaxAge * Second) \in 0..(Second - 1)

\* A Login under a SessionMaxAge of half a second saved a session whose
\* max-age is 0, and the client holds that cookie.
C11_Witness ==
    /\ Finished("Login")
    /\ SaveSucceeded(last)
    /\ SessionMaxAge # 0
    /\ SessionMaxAge < Second
    /\ last.saved.MaxAge = 0
    /\ cookie.MaxAge = 0
    /\ cookie.kind = "session"

\* C12: after a successful Init every authenticator of the Registry is one
\* whose own Init was called and returned nil; an optional authenticator
\* whose Init was not called, or failed, is not in the Registry.
C12_RegistryInitialized ==
    started =>
        /\ Range(authenticators) \subseteq initialized
        /\ \A a \in {"jwtSession", "jwtCookieSession"} :
              a \notin initialized => a \notin Range(authenticators)

\* C13: in a Login request dbUser is nil when the username is empty (and
\* GetUser is not called), when GetUser returns sql.ErrNoRows and when it
\* returns another error.  In the last case the request goes on to the
\* chain: CanLogin is asked in Registry order starting with the first
\* authenticator, and the request ends as the chain decides: with onfailure
\* if no authenticator was willing (all were asked) or the chosen one's
\* Login failed (with that error), and otherwise with onsuccess or, if the
\* session could not be created or saved, with status 500.
C13_NilCandidate ==
    last.op = "Login" =>
        /\ last.username = "" => (Count("GetUser") = 0 /\ last.dbUser = Nil)
        /\ last.username # "" =>
              (Count("GetUser") = 1 /\ Args("GetUser") = {last.username})
        /\ Rets("GetUser") = {ErrNoRows} => last.dbUser = Nil
        /\ Rets("GetUser") = {ErrDb} =>
              LET asked == SelectSeq(last.calls, LAMBDA c : c.fn = "CanLogin")
              IN  /\ last.dbUser = Nil
                  /\ \A j \in DOMAIN asked : asked[j].arg = authenticators[j]
                  /\ last.pc = "done" =>
                        /\ Len(asked) >= 1
                        /\ Count("Login") = 0 =>
                              /\ Len(asked) = Len(authenticators)
                              /\ Count("onfailure") = 1
                              /\ Count("onsuccess") = 0
                        /\ (Count("Login") = 1 /\ Rets("Login") # {NoErr}) =>
                              /\ Count("onfailure") = 1
                              /\ Args("onfailure") = Rets("Login")
                              /\ Count("onsuccess") = 0
                        /\ Rets("Login") = {NoErr} =>
                              /\ Count("onfailure") = 0
                              /\ IF Rets("New") \cup Rets("Save") = {NoErr}
                                 THEN Count("onsuccess") = 1 /\ last.status = 0
                                 ELSE /\ Count("onsuccess") = 0
                                      /\ last.status = StatusInternalServerError

\* A finished Login whose lookup failed, whose first authenticator was not
\* willing, whose second one logged the user in, and which reached
\* onsuccess.
C13_Witness ==
    /\ Finished("Login")
    /\ Rets("GetUser") = {ErrDb}
    /\ Len(authenticators) >= 2
    /\ last.chosen = authenticators[2]
    /\ Rets("Login") = {NoErr}
    /\ Count("onsuccess") = 1

\* C14: the AuthSource of a session User, -1, is none of the three named
\* sources; every User an Auth request forwards from its session stage has
\* AuthType AuthSession and AuthSource -1; and the User a Login request puts
\* in the context for onsuccess is the User the chosen authenticator's Login
\* returned, AuthType and AuthSource included.
C14_Provenance ==
    /\ AuthSourceUnknown \notin {AuthViaLocalPassword, AuthViaLDAP, AuthViaToken}
    /\ (Finished("Auth") /\ Count("AuthViaSession") = 1 /\ Count("onsuccess") = 1) =>
          /\ last.ctxUser.AuthType = AuthSession
          /\ last.ctxUser.AuthSource = AuthSourceUnknown
    /\ (Finished("Login") /\ Count("onsuccess") = 1) =>
          /\ last.ctxUser = last.user
          /\ [user |-> last.ctxUser, err |-> NoErr] \in LoginResults(last.chosen)
          /\ last.ctxUser.AuthSource = SourceOf(last.chosen)

\* An Auth request forwarded, from the session a Login saved, a session User
\* with that Login's username, under a Registry that starts with LDAP.
C14_Witness ==
    /\ Finished("Auth")
    /\ Count("AuthViaSession") = 1
    /\ Count("onsuccess") = 1
    /\ last.req = cookie
    /\ loginUser # Nil
    /\ last.ctxUser.Username = loginUser.Username
    /\ last.ctxUser.AuthSource = AuthSourceUnknown
    /\ "ldap" \in Range(authenticators)

\* C15: no Login or Auth request calls onsuccess with a User in the context
\* whose Expiration is set and has passed, and no Auth request is forwarded
\* from the session that a Login saved for a User whose Expiration has
\* passed since.
C15_ExpirationCutoff ==
    /\ (last.pc = "done" /\ last.op \in {"Login", "Auth"} /\ Count("onsuccess") = 1) =>
          ~Passed(last.ctxUser.Expiration)
    /\ (/\ Finished("Auth")
        /\ Count("AuthViaSession") = 1
        /\ Count("onsuccess") = 1
        /\ loginUser # Nil
        /\ last.req = cookie) =>
          ~Passed(loginExpiration)

\* C16: Init succeeds iff no mandatory Init failed, and the Init of LDAP can
\* be the failure only if configs has an "ldap" block.  After a successful
\* Init the Registry has no authenticator twice; LDAP is in it iff configs
\* has an "ldap" block, and then it is first; the JWT session authenticator
\* comes before the JWT cookie session authenticator; the local
\* authenticator is in it and is last.
C16_InitOrder ==
    /\ started <=> initErr = ""
    /\ initErr = "ldap" => configs.ldap
    /\ started =>
          LET n == Len(authenticators)
              At(a) == {i \in 1..n : authenticators[i] = a}
          IN  /\ n >= 1
              /\ Range(authenticators) \subseteq
                    {"ldap", "jwtSession", "jwtCookieSession", "local"}
              /\ \A a \in Range(authenticators) : Cardinality(At(a)) = 1
              /\ At("ldap") = (IF configs.ldap THEN {1} ELSE {})
              /\ At("local") = {n}
              /\ \A i \in At("jwtSession"), j \in At("jwtCookieSession") : i < j

\* A successful Init without an "ldap" block that included both JWT session
\* authenticators, after which a Login chose the local authenticator, asked
\* last.
C16_Witness ==
    /\ started
    /\ ~configs.ldap
    /\ authenticators = <<"jwtSession", "jwtCookieSession", "local">>
    /\ Finished("Login")
    /\ last.chosen = "local"
    /\ Count("CanLogin") = 3

\* C17: whenever a Login request whose lookup found no row for its username
\* makes its registration write (the AddUser call for that username), the
\* username still has no row: no other request registered it between this
\* request's lookup and its write, so the user is registered at most once.
C17_RegisteredOnce ==
    [][LET Unknown(r) ==
               \E i \in DOMAIN r.calls : r.calls[i] = Call("GetUser", r.username, ErrNoRows)
           Writes(r, r2) ==
               /\ r.op = "Login" /\ r.pc = "register"
               /\ r2.pc = "done"
               /\ \E i \in DOMAIN r2.calls :
                     /\ i > Len(r.calls)
                     /\ r2.calls[i].fn = "AddUser"
                     /\ r2.calls[i].arg = r.username
       IN  /\ (Unknown(last) /\ Writes(last, last')) => last.username \notin db
           /\ (Unknown(other) /\ Writes(other, other')) => other.username \notin db
      ]_vars

\* C18: a Login request that has ended has made exactly one of the calls
\* onsuccess, onfailure and http.Error, as its last call, and http.Error
\* wrote status 500; a request still in flight has made none of them.
\* onsuccess was called only after the chosen authenticator's Login returned
\* a nil error and, after that, Save returned a nil error for a session whose
\* username, projects and roles are those of the User that Login returned.
C18_OneOutcome ==
    last.op = "Login" =>
        LET n == Len(last.calls)
            outcomes == Count("onsuccess") + Count("onfailure") + Count("http.Error")
        IN  /\ last.pc # "done" => outcomes = 0
            /\ last.pc = "done" =>
                  /\ outcomes = 1
                  /\ last.calls[n].fn \in {"onsuccess", "onfailure", "http.Error"}
                  /\ last.status =
                        (IF Count("http.Error") = 1 THEN StatusInternalServerError ELSE 0)
            /\ Count("onsuccess") = 1 =>
                  /\ \E i, j \in 1..n :
                        /\ i < j /\ j < n
                        /\ last.calls[i] = Call("Login", last.chosen, NoErr)
                        /\ last.calls[j] = Call("Save", "session", NoErr)
                  /\ last.user # Nil
                  /\ SessionKeys \subseteq DOMAIN last.saved.Values
                  /\ last.saved.Values["username"] = last.user.Username
                  /\ last.saved.Values["projects"] = last.user.Projects
                  /\ last.saved.Values["roles"] = last.user.Roles

\* A Login that reached onsuccess on a request that carried a session
\* cookie lacking one of the three keys.
C18_Witness ==
    /\ Finished("Login")
    /\ Count("onsuccess") = 1
    /\ last.req.kind = "session"
    /\ DOMAIN last.req.Values # SessionKeys
    /\ last.ctxUser.Roles # last.ctxUser.Projects

\* C19: once a Logout of the session of a successful Login has completed,
\* and until a Login succeeds again, the client holds no session cookie, and
\* an Auth request that carries no valid bearer token and the client's
\* cookie state is not forwarded to onsuccess: it ends with one call of
\* onfailure with the unauthorized error.
C19_LoggedOut ==
    loggedOut =>
        /\ cookie = NoCookie
        /\ (Finished("Auth") /\ last.token.kind # "valid" /\ last.req = cookie) =>
              /\ Count("onsuccess") = 0
              /\ last.ctxUser = Nil
              /\ Count("onfailure") = 1
              /\ Args("onfailure") = {ErrUnauthorized}
              /\ last.status = 0

\* After a Login and the Logout of its session, an Auth request with a
\* bearer token that does not verify and no session cookie was refused.
C19_Witness ==
    /\ loggedOut
    /\ Finished("Auth")
    /\ last.token.kind = "invalid"
    /\ last.req = cookie
    /\ Count("onfailure") = 1

\* C20: a Login request whose AddUser call returned an error had saved its
\* session, and it ended with onsuccess, called once as the last call, with
\* the User the authenticator returned in the context; it called neither
\* onfailure nor http.Error and the core wrote no status.
C20_AddUserFailure ==
    (Finished("Login") /\ Count("AddUser") >= 1 /\ Rets("AddUser") # {NoErr}) =>
        /\ last.dbUser = Nil
        /\ SaveSucceeded(last)
        /\ Count("onsuccess") = 1
        /\ last.calls[Len(last.calls)].fn = "onsuccess"
        /\ last.ctxUser # Nil
        /\ last.ctxUser = last.user
        /\ Count("onfailure") = 0
        /\ Count("http.Error") = 0
        /\ last.status = 0

\* A first-time Login whose AddUser failed: it reached onsuccess, the client
\* holds its session cookie, and the user still has no row.
C20_Witness ==
    /\ Finished("Login")
    /\ Rets("GetUser") = {ErrNoRows}
    /\ Rets("AddUser") = {ErrAddUser}
    /\ Count("onsuccess") = 1
    /\ last.ctxUser.Username \notin db
    /\ cookie = ClientCookie(last.saved)

====
